---- MODULE Spec2Model ----
(***************************************************************************)
(* A model of src/src/common/io/io.cpp (mender::common::io):              *)
(*   - the copy engine: Copy and the three AsyncCopy shapes (SpecCopy),    *)
(*   - AsyncReader::RepeatedAsyncRead (SpecRepeat),                        *)
(*   - BufferedReader and AsyncBufferedReader (SpecBuffered),              *)
(*   - ByteWriter (SpecByteWriter),                                        *)
(*   - ReaderStreamBuffer, the stream of Reader::GetStream (SpecBridge).   *)
(* The readers, writers and the event loop behind the Reader / Writer /    *)
(* AsyncReader / AsyncWriter interfaces are the environment: every result  *)
(* they may deliver is an input drawn with \E.                             *)
(***************************************************************************)
EXTENDS Integers, Sequences, FiniteSets, TLC

\* ------------------------------------------------------------------ bounds
\* MENDER_BUFSIZE (common/config.h), scaled down.
BufSize == 2
\* Longest source the copy engine reads from.
MaxSrc == 4
\* Largest finite stop_after value tried.
MaxLimit == 2
\* stop_after when the caller wants no limit: larger than any source.
NoLimit == 1000
\* Most submissions one RepeatedAsyncRead chain makes.
MaxSubmit == 4
\* Longest byte sequence the wrapped reader of a buffered reader holds.
MaxWrapped == 3
\* Largest range handed to a buffered reader's Read / AsyncRead.
MaxRange == 2
\* Largest container a ByteWriter is constructed over.
MaxReceiver == 2
\* Largest range handed to ByteWriter::Write.
MaxWrite == 2
\* Most bytes a ByteWriter is made to write.
MaxWritten == 4
\* Longest byte sequence the Reader behind a stream holds.
MaxStream == 3
\* Most Read calls a stream is made to issue.
MaxRefills == 4

VARIABLES
    \* ---- copy engine
    shape,          \* which entry point runs: Copy or one AsyncCopy overload
    limit,          \* CopyData::limit (stop_after)
    copied,         \* CopyData::copied
    buf,            \* CopyData::buf / Copy's buffer: the bytes of the last read
    srcData,        \* the bytes the source holds
    srcPos,         \* how many of them the source has delivered
    dst,            \* the bytes the sink has accepted
    stack,          \* active calls of the chain, innermost last
    pending,        \* the operation the event loop still has to complete
    started,        \* AsyncCopy / Copy has been called
    finished,       \* finished_handler invocations: [err, refs]
    copy_ret,       \* what Copy returned (empty while it runs)
    firstErr,       \* first error a read, write or submission produced
    shortSeen,      \* a writer accepted fewer bytes than offered
    nReads,         \* Read / AsyncRead calls issued on the source
    nWrites,        \* Write / AsyncWrite calls issued on the sink
    readReqs,       \* sizes of the ranges handed to Read / AsyncRead
    lastRead,       \* what src.Read returned in Copy's last turn
    \* ---- RepeatedAsyncRead
    rstack,         \* active calls, innermost last
    rpending,       \* an AsyncRead is waiting in the event loop
    rstarted,
    nSubmitted,     \* AsyncRead submissions made
    nFailed,        \* submissions that returned an error
    handlerLog,     \* handler invocations: [from, ok, ret]
    \* ---- buffered readers
    kind,           \* BufferedReader or AsyncBufferedReader
    wrapped,        \* the bytes the wrapped reader holds
    wpos,           \* how many of them it has delivered
    buffer_,
    bytes_read_,    \* buffer_reader_'s cursor (ByteReader::bytes_read_)
    buffer_remaining_,
    rewind_done_,
    rewind_consumed_,
    stop_done_,
    wpending,       \* range size of the wrapped AsyncRead in flight, or -1
    lastOp,         \* the last operation performed and what it returned
    tick,           \* flips with every operation
    phase,          \* position in the read / Rewind / read-again scenario
    pass2,          \* bytes returned to the caller since that Rewind
    rewindRet,      \* the count that Rewind returned
    discarded,      \* StopBufferingAndDiscard has succeeded
    final,          \* the replay armed by StopBufferingAndRewind, as the caller sees it
    \* ---- ByteWriter
    receiver_,      \* the container written into
    bytes_written_,
    unlimited_,
    lastWrite,      \* the last Write: its range, its result, the state before it
    \* ---- ReaderStreamBuffer (the stream behind Reader::GetStream)
    rdData,         \* the bytes the wrapped Reader holds
    rdPos,          \* how many of them it has delivered
    buf_,           \* the staging buffer
    gptr,           \* get pointer, as an offset from eback
    egptr,          \* end of the staged bytes, as an offset from eback
    errno,          \* the error-code slot
    nReaderReads,   \* Read calls issued on the wrapped Reader
    lastUnderflow   \* the last underflow(): what it found, did and returned

copyVars == <<shape, limit, copied, buf, srcData, srcPos, dst, stack, pending,
              started, finished, copy_ret, firstErr, shortSeen, nReads, nWrites,
              readReqs, lastRead>>
repVars == <<rstack, rpending, rstarted, nSubmitted, nFailed, handlerLog>>
bufVars == <<kind, wrapped, wpos, buffer_, bytes_read_, buffer_remaining_,
             rewind_done_, rewind_consumed_, stop_done_, wpending, lastOp, tick,
             phase, pass2, rewindRet, discarded, final>>
bwVars == <<receiver_, bytes_written_, unlimited_, lastWrite>>
sbVars == <<rdData, rdPos, buf_, gptr, egptr, errno, nReaderReads, lastUnderflow>>
vars == <<copyVars, repVars, bufVars, bwVars, sbVars>>

\* ------------------------------------------------------------ common values
Min(a, b) == IF a < b THEN a ELSE b

Error(code, msg) == [code |-> code, msg |-> msg]
NoError == Error("NoError", "")
\* Errors a reader, a writer or a submission may produce.
EnvErrors == {Error("io_error", ""), Error("no_space_on_device", "")}

\* ExpectedSize
Ok(n) == [ok |-> TRUE, val |-> n, err |-> NoError]
Unexpected(e) == [ok |-> FALSE, val |-> 0, err |-> e]

Prefix(s, n) == SubSeq(s, 1, Min(n, Len(s)))
Iota(n) == [i \in 1..n |-> i]


\* ------------------------------------------------------------- copy engine
AsyncShapes == {"Writer_AsyncReader", "AsyncWriter_Reader", "AsyncWriter_AsyncReader"}
Shapes == AsyncShapes \cup {"Copy"}

NoOp == [fn |-> "none", n |-> 0, owns |-> FALSE]
\* An active call: the function, its size argument (the range of an AsyncRead /
\* AsyncWrite, expected_written of a writer functor) and whether it still owns
\* references to the CopyData, the reader and the writer.
Frame(fn, n, owns) == [fn |-> fn, n |-> n, owns |-> owns]

\* The references to CopyData / reader / writer that the calls on `stk` hold.
Held(stk) == Cardinality({i \in DOMAIN stk : stk[i].owns})

SrcLeft == Len(srcData) - srcPos
Chunk(k) == SubSeq(srcData, srcPos + 1, srcPos + k)

\* What a reader honouring the Read / AsyncRead contract may deliver for a range
\* of n bytes: at most n bytes, 0 only at the end of the data (or for an empty
\* range), or an error.
ReadCounts(n) == IF n <= 0 \/ SrcLeft = 0 THEN {0} ELSE 1..Min(n, SrcLeft)
ReadResults(n) == {Ok(k) : k \in ReadCounts(n)} \cup {Unexpected(e) : e \in EnvErrors}
\* What a writer may deliver for a range of n bytes: all of it, fewer, or an error.
WriteResults(n) == {Ok(k) : k \in 0..n} \cup {Unexpected(e) : e \in EnvErrors}

InitialToCopy(lim) == Min(lim, BufSize)

ToCopyIgnoresCopied(lim, cop) == Min(lim, BufSize)
ToCopy(lim, cop) == Min(lim - cop, BufSize)

\* What a step of the chain decides: to finish with err, or to submit k(n).
FinishD(e, c) == [k |-> "finish", err |-> e, n |-> 0, copied |-> c]
SubmitD(op, n, c) == [k |-> op, err |-> NoError, n |-> n, copied |-> c]

\* AsyncCopy(WriterPtr, AsyncReaderPtr)::Functor::operator(): size is the read's
\* result, w the result of writer->Write.
Functor_WR_AcceptsShortWrite(size, w, lim, cop) ==
    IF ~size.ok THEN FinishD(size.err, cop)
    ELSE IF size.val = 0 THEN FinishD(NoError, cop)
    ELSE IF ~w.ok THEN FinishD(w.err, cop)
    ELSE LET c == cop + w.val IN
         IF ToCopy(lim, c) = 0 THEN FinishD(NoError, c)
         ELSE SubmitD("AsyncRead", ToCopy(lim, c), c)
Functor_WR(size, w, lim, cop) ==
    IF ~size.ok THEN FinishD(size.err, cop)
    ELSE IF size.val = 0 THEN FinishD(NoError, cop)
    ELSE IF ~w.ok THEN FinishD(w.err, cop)
    ELSE IF w.val # size.val
         THEN FinishD(Error("io_error", "Short write when copying data"), cop)
    ELSE LET c == cop + w.val IN
         IF ToCopy(lim, c) = 0 THEN FinishD(NoError, c)
         ELSE SubmitD("AsyncRead", ToCopy(lim, c), c)

\* AsyncCopy(AsyncWriterPtr, ReaderPtr)::Functor::operator(): exp_written is the
\* write's result, r the result of reader->Read.
Functor_RW_SwallowsReadError(exp_written, expected_written, r, lim, cop) ==
    IF ~exp_written.ok THEN FinishD(exp_written.err, cop)
    ELSE IF exp_written.val # expected_written
         THEN FinishD(Error("io_error", "Short write when copying data"), cop)
    ELSE LET c == cop + exp_written.val IN
         IF ToCopy(lim, c) = 0 THEN FinishD(NoError, c)
         ELSE IF ~r.ok THEN FinishD(NoError, c)
         ELSE IF r.val = 0 THEN FinishD(NoError, c)
         ELSE SubmitD("AsyncWrite", r.val, c)
Functor_RW(exp_written, expected_written, r, lim, cop) ==
    IF ~exp_written.ok THEN FinishD(exp_written.err, cop)
    ELSE IF exp_written.val # expected_written
         THEN FinishD(Error("io_error", "Short write when copying data"), cop)
    ELSE LET c == cop + exp_written.val IN
         IF ToCopy(lim, c) = 0 THEN FinishD(NoError, c)
         ELSE IF ~r.ok THEN FinishD(r.err, c)
         ELSE IF r.val = 0 THEN FinishD(NoError, c)
         ELSE SubmitD("AsyncWrite", r.val, c)

\* AsyncCopyReaderFunctor::operator()
AsyncCopyReaderFunctor(exp_size, cop) ==
    IF ~exp_size.ok THEN FinishD(exp_size.err, cop)
    ELSE IF exp_size.val = 0 THEN FinishD(NoError, cop)
    ELSE SubmitD("AsyncWrite", exp_size.val, cop)

\* AsyncCopyWriterFunctor::operator()
AsyncCopyWriterFunctor(exp_size, expected_written, lim, cop) ==
    IF ~exp_size.ok THEN FinishD(exp_size.err, cop)
    ELSE IF exp_size.val # expected_written
         THEN FinishD(Error("io_error", "Short write in AsyncCopy"), cop)
    ELSE LET c == cop + exp_size.val IN
         IF ToCopy(lim, c) = 0 THEN FinishD(NoError, c)
         ELSE SubmitD("AsyncRead", ToCopy(lim, c), c)

\* Functor::CallFinishedHandler: `*this = {}` drops what the functor at the top
\* of stk owns, then the handler runs; the result is the handler invocation.
CallFinishedHandler(stk, err) ==
    LET top == Len(stk)
        released == [stk EXCEPT ![top].owns = FALSE]
    IN [err |-> err, refs |-> Held(released)]

\* The first error the environment produced.
NoteError(e) == IF firstErr = NoError THEN e ELSE firstErr

\* Carry out decision d of the functor fn running on top of `base`.
Carry(base, fn, expected, d) ==
    /\ copied' = d.copied
    /\ IF d.k = "finish"
       THEN /\ finished' = Append(finished,
                    CallFinishedHandler(base \o <<Frame(fn, expected, TRUE)>>, d.err))
            /\ stack' = <<>>
       ELSE /\ finished' = finished
            /\ stack' = base \o <<Frame(fn, expected, TRUE), Frame(d.k, d.n, TRUE)>>
    /\ UNCHANGED <<shape, limit, srcData, copy_ret>>

\* The completion handler of shape Writer_AsyncReader runs on top of `base`
\* with the read's result `size`; writer->Write is called inline.
RunFunctor_WR(base, size) ==
    LET wrote == size.ok /\ size.val > 0 IN
    \E w \in (IF wrote THEN WriteResults(size.val) ELSE {Ok(0)}) :
        LET d == Functor_WR(size, w, limit, copied) IN
        /\ buf' = IF size.ok THEN Chunk(size.val) ELSE buf
        /\ srcPos' = IF size.ok THEN srcPos + size.val ELSE srcPos
        /\ dst' = IF wrote /\ w.ok THEN dst \o Prefix(buf', w.val) ELSE dst
        /\ nWrites' = IF wrote THEN nWrites + 1 ELSE nWrites
        /\ shortSeen' = (shortSeen \/ (wrote /\ w.ok /\ w.val < size.val))
        /\ firstErr' = IF ~size.ok THEN NoteError(size.err)
                       ELSE IF wrote /\ ~w.ok THEN NoteError(w.err)
                       ELSE firstErr
        /\ nReads' = IF d.k = "AsyncRead" THEN nReads + 1 ELSE nReads
        /\ readReqs' = IF d.k = "AsyncRead"
                       THEN readReqs \cup {<<d.n, d.copied>>} ELSE readReqs
        /\ Carry(base, "Functor", 0, d)

\* The completion handler of shape AsyncWriter_Reader runs on top of `base` with
\* the write's result; reader->Read is called inline.
RunFunctor_RW(base, exp_written, expected_written) ==
    LET to_copy == ToCopy(limit, copied + exp_written.val)
        read == exp_written.ok /\ exp_written.val = expected_written /\ to_copy # 0
    IN
    \E r \in (IF read THEN ReadResults(to_copy) ELSE {Ok(0)}) :
        LET d == Functor_RW(exp_written, expected_written, r, limit, copied) IN
        /\ dst' = IF exp_written.ok THEN dst \o Prefix(buf, exp_written.val) ELSE dst
        /\ buf' = IF read /\ r.ok THEN Chunk(r.val) ELSE buf
        /\ srcPos' = IF read /\ r.ok THEN srcPos + r.val ELSE srcPos
        /\ shortSeen' = (shortSeen \/
                         (exp_written.ok /\ exp_written.val < expected_written))
        /\ firstErr' = IF ~exp_written.ok THEN NoteError(exp_written.err)
                       ELSE IF read /\ ~r.ok THEN NoteError(r.err)
                       ELSE firstErr
        /\ nReads' = IF read THEN nReads + 1 ELSE nReads
        /\ readReqs' = IF read THEN readReqs \cup {<<to_copy, d.copied>>} ELSE readReqs
        /\ nWrites' = IF d.k = "AsyncWrite" THEN nWrites + 1 ELSE nWrites
        /\ Carry(base, "Functor", expected_written, d)

\* AsyncCopyReaderFunctor runs on top of `base` with the read's result.
RunAsyncCopyReaderFunctor(base, exp_size) ==
    LET d == AsyncCopyReaderFunctor(exp_size, copied) IN
    /\ buf' = IF exp_size.ok THEN Chunk(exp_size.val) ELSE buf
    /\ srcPos' = IF exp_size.ok THEN srcPos + exp_size.val ELSE srcPos
    /\ firstErr' = IF ~exp_size.ok THEN NoteError(exp_size.err) ELSE firstErr
    /\ nWrites' = IF d.k = "AsyncWrite" THEN nWrites + 1 ELSE nWrites
    /\ UNCHANGED <<dst, shortSeen, nReads, readReqs>>
    /\ Carry(base, "AsyncCopyReaderFunctor", 0, d)

\* AsyncCopyWriterFunctor runs on top of `base` with the write's result.
RunAsyncCopyWriterFunctor(base, exp_size, expected_written) ==
    LET d == AsyncCopyWriterFunctor(exp_size, expected_written, limit, copied) IN
    /\ dst' = IF exp_size.ok THEN dst \o Prefix(buf, exp_size.val) ELSE dst
    /\ shortSeen' = (shortSeen \/ (exp_size.ok /\ exp_size.val < expected_written))
    /\ firstErr' = IF ~exp_size.ok THEN NoteError(exp_size.err) ELSE firstErr
    /\ nReads' = IF d.k = "AsyncRead" THEN nReads + 1 ELSE nReads
    /\ readReqs' = IF d.k = "AsyncRead"
                   THEN readReqs \cup {<<d.n, d.copied>>} ELSE readReqs
    /\ UNCHANGED <<buf, srcPos, nWrites>>
    /\ Carry(base, "AsyncCopyWriterFunctor", expected_written, d)

\* The handler given to the operation `op` is invoked on top of `base`.
InvokeHandler(base, op) ==
    \/ /\ shape = "Writer_AsyncReader"
       /\ \E size \in ReadResults(op.n) : RunFunctor_WR(base, size)
    \/ /\ shape = "AsyncWriter_Reader"
       /\ \E w \in WriteResults(op.n) : RunFunctor_RW(base, w, op.n)
    \/ /\ shape = "AsyncWriter_AsyncReader"
       /\ op.fn = "AsyncRead"
       /\ \E size \in ReadResults(op.n) : RunAsyncCopyReaderFunctor(base, size)
    \/ /\ shape = "AsyncWriter_AsyncReader"
       /\ op.fn = "AsyncWrite"
       /\ \E w \in WriteResults(op.n) : RunAsyncCopyWriterFunctor(base, w, op.n)

TopIsSubmission ==
    /\ stack # <<>>
    /\ stack[Len(stack)].fn \in {"AsyncRead", "AsyncWrite"}

\* AsyncCopy is called. The two AsyncReader overloads submit the first AsyncRead;
\* the Reader overload runs `initial(0)`.
AsyncCopyCall ==
    /\ shape \in AsyncShapes
    /\ ~started
    /\ started' = TRUE
    /\ \/ /\ shape \in {"Writer_AsyncReader", "AsyncWriter_AsyncReader"}
          /\ stack' = <<Frame("AsyncCopy", 0, TRUE),
                        Frame("AsyncRead", InitialToCopy(limit), TRUE)>>
          /\ nReads' = nReads + 1
          /\ readReqs' = readReqs \cup {<<InitialToCopy(limit), 0>>}
          /\ UNCHANGED <<shape, limit, copied, buf, srcData, srcPos, dst, pending,
                         finished, copy_ret, firstErr, shortSeen, nWrites>>
       \/ /\ shape = "AsyncWriter_Reader"
          /\ RunFunctor_RW(<<Frame("AsyncCopy", 0, TRUE)>>, Ok(0), 0)
          /\ UNCHANGED pending
    /\ UNCHANGED <<lastRead, repVars, bufVars, bwVars, sbVars>>

SubmissionFails_DropsError ==
    /\ TopIsSubmission
    /\ \E e \in EnvErrors : firstErr' = NoteError(e)
    /\ stack' = <<>>
    /\ UNCHANGED <<shape, limit, copied, buf, srcData, srcPos, dst, pending, started,
                   finished, copy_ret, shortSeen, nReads, nWrites, readReqs>>
    /\ UNCHANGED <<lastRead, repVars, bufVars, bwVars, sbVars>>
\* The submitted AsyncRead / AsyncWrite returns an error and does not invoke the
\* handler: AsyncCopy calls finished_handler directly, a functor goes through
\* CallFinishedHandler. Every caller below then returns.
SubmissionFails ==
    /\ TopIsSubmission
    /\ \E e \in EnvErrors :
        LET callers == SubSeq(stack, 1, Len(stack) - 1)
            caller == callers[Len(callers)]
        IN
        /\ finished' = Append(finished,
                IF caller.fn = "AsyncCopy"
                THEN [err |-> e, refs |-> Held(callers)]
                ELSE CallFinishedHandler(callers, e))
        /\ firstErr' = NoteError(e)
    /\ stack' = <<>>
    /\ UNCHANGED <<shape, limit, copied, buf, srcData, srcPos, dst, pending, started,
                   copy_ret, shortSeen, nReads, nWrites, readReqs>>
    /\ UNCHANGED <<lastRead, repVars, bufVars, bwVars, sbVars>>

\* The submitted operation is accepted and will complete from the event loop:
\* it returns NoError and every caller below returns.
SubmissionDeferred ==
    /\ TopIsSubmission
    /\ pending' = stack[Len(stack)]
    /\ stack' = <<>>
    /\ UNCHANGED <<shape, limit, copied, buf, srcData, srcPos, dst, started, finished,
                   copy_ret, firstErr, shortSeen, nReads, nWrites, readReqs>>
    /\ UNCHANGED <<lastRead, repVars, bufVars, bwVars, sbVars>>

\* The submitted operation completes before it returns: the handler is invoked
\* inside the AsyncRead / AsyncWrite call, on top of everything still active.
CompletesInline ==
    /\ TopIsSubmission
    /\ InvokeHandler(stack, stack[Len(stack)])
    /\ UNCHANGED <<pending, started>>
    /\ UNCHANGED <<lastRead, repVars, bufVars, bwVars, sbVars>>

\* The event loop completes the pending operation.
CompletesFromEventLoop ==
    /\ stack = <<>>
    /\ pending # NoOp
    /\ pending' = NoOp
    /\ InvokeHandler(<<>>, pending)
    /\ UNCHANGED started
    /\ UNCHANGED <<lastRead, repVars, bufVars, bwVars, sbVars>>

\* ---- Copy(dst, src, buffer)
\* What a Reader may deliver to Copy: as ReadResults, or (breaking the contract)
\* a count larger than the buffer.
CopyReadResults == ReadResults(BufSize) \cup {Ok(BufSize + 1)}

\* One turn of Copy's loop: r is the result of src.Read, w of dst.Write.
\* ret = TRUE: Copy returns err; FALSE: it loops.
Copy_Loop_ForgetsWriteError(r, w, size) ==
    IF ~r.ok THEN [ret |-> TRUE, err |-> r.err]
    ELSE IF r.val = 0 THEN [ret |-> TRUE, err |-> NoError]
    ELSE IF r.val > size
         THEN [ret |-> TRUE,
               err |-> Error("ProgrammingError",
                   "Read returned more bytes than requested. This is a bug in the Read function.")]
    ELSE IF ~w.ok THEN [ret |-> FALSE, err |-> NoError]
    ELSE IF w.val = 0
         THEN [ret |-> TRUE, err |-> Error("io_error", "Zero write when copying data")]
    ELSE IF r.val # w.val
         THEN [ret |-> TRUE, err |-> Error("io_error", "Short write when copying data")]
    ELSE [ret |-> FALSE, err |-> NoError]
Copy_Loop(r, w, size) ==
    IF ~r.ok THEN [ret |-> TRUE, err |-> r.err]
    ELSE IF r.val = 0 THEN [ret |-> TRUE, err |-> NoError]
    ELSE IF r.val > size
         THEN [ret |-> TRUE,
               err |-> Error("ProgrammingError",
                   "Read returned more bytes than requested. This is a bug in the Read function.")]
    ELSE IF ~w.ok THEN [ret |-> TRUE, err |-> w.err]
    ELSE IF w.val = 0
         THEN [ret |-> TRUE, err |-> Error("io_error", "Zero write when copying data")]
    ELSE IF r.val # w.val
         THEN [ret |-> TRUE, err |-> Error("io_error", "Short write when copying data")]
    ELSE [ret |-> FALSE, err |-> NoError]

\* Copy runs one more turn of its loop (the first turn is the call).
CopyIteration ==
    /\ shape = "Copy"
    /\ copy_ret = <<>>
    /\ started' = TRUE
    /\ \E r \in CopyReadResults :
        LET fits == r.ok /\ r.val <= BufSize
            wrote == fits /\ r.val > 0
        IN
        \E w \in (IF wrote THEN WriteResults(r.val) ELSE {Ok(0)}) :
            LET d == Copy_Loop(r, w, BufSize) IN
            /\ buf' = IF fits THEN Chunk(r.val) ELSE buf
            /\ srcPos' = IF fits THEN srcPos + r.val ELSE srcPos
            /\ dst' = IF wrote /\ w.ok THEN dst \o Prefix(buf', w.val) ELSE dst
            /\ nReads' = nReads + 1
            /\ nWrites' = IF wrote THEN nWrites + 1 ELSE nWrites
            /\ shortSeen' = (shortSeen \/ (wrote /\ w.ok /\ w.val < r.val))
            /\ firstErr' = IF ~r.ok THEN NoteError(r.err)
                           ELSE IF wrote /\ ~w.ok THEN NoteError(w.err)
                           ELSE firstErr
            /\ copy_ret' = IF d.ret THEN <<d.err>> ELSE copy_ret
            /\ lastRead' = r
    /\ UNCHANGED <<shape, limit, copied, srcData, stack, pending, finished, readReqs>>
    /\ UNCHANGED <<repVars, bufVars, bwVars, sbVars>>

\* No read made yet.
NoRead == [ok |-> FALSE, val |-> 0, err |-> NoError]

\* ---- the components at rest (the state of a component a specification
\* does not exercise)
CopyIdle ==
    /\ shape = "Copy" /\ limit = NoLimit /\ copied = 0 /\ buf = <<>>
    /\ srcData = <<>> /\ srcPos = 0 /\ dst = <<>> /\ stack = <<>> /\ pending = NoOp
    /\ started = FALSE /\ finished = <<>> /\ copy_ret = <<>> /\ firstErr = NoError
    /\ shortSeen = FALSE /\ nReads = 0 /\ nWrites = 0 /\ readReqs = {}
    /\ lastRead = NoRead

RepeatIdle ==
    /\ rstack = <<>> /\ rpending = FALSE /\ rstarted = FALSE /\ nSubmitted = 0
    /\ nFailed = 0 /\ handlerLog = <<>>

\* An operation on a buffered reader and its outcome: ok / err / val are what
\* it returned (for AsyncRead: the Error returned), `from` is where a read took
\* its bytes, handlers / herr / val what the caller's handler was given.
Operation(op, n, ok, val, err, from, handlers, herr) ==
    [op |-> op, n |-> n, ok |-> ok, val |-> val, err |-> err, from |-> from,
     handlers |-> handlers, herr |-> herr]
NoOperation == Operation("none", 0, TRUE, 0, NoError, "none", 0, NoError)

\* The replay armed by a successful StopBufferingAndRewind: the count it
\* returned, the bytes recorded at that moment, the bytes the caller has been
\* given since, where the reads took them from while fewer than n had been
\* given (sources) and afterwards (later).
NoFinal == [on |-> FALSE, n |-> 0, recorded |-> <<>>, got |-> <<>>,
            sources |-> {}, later |-> {}]

BufferedIdle ==
    /\ kind = "BufferedReader" /\ wrapped = <<>> /\ wpos = 0 /\ buffer_ = <<>>
    /\ bytes_read_ = 0 /\ buffer_remaining_ = 0 /\ rewind_done_ = FALSE
    /\ rewind_consumed_ = FALSE /\ stop_done_ = FALSE /\ wpending = -1
    /\ lastOp = NoOperation /\ tick = FALSE
    /\ phase = "first" /\ pass2 = <<>> /\ rewindRet = 0 /\ discarded = FALSE
    /\ final = NoFinal

\* No Write made yet.
NoWrite == [data |-> <<>>, ret |-> Ok(0), size |-> 0, written |-> 0, unlimited |-> FALSE]

ByteWriterIdle ==
    /\ receiver_ = <<>> /\ bytes_written_ = 0 /\ unlimited_ = FALSE
    /\ lastWrite = NoWrite

\* No underflow() made yet.
NoUnderflow == [exhausted |-> TRUE, read |-> <<>>, errnoAfterRead |-> 0, ret |-> <<0>>]

BridgeIdle ==
    /\ rdData = <<>> /\ rdPos = 0 /\ buf_ = <<>> /\ gptr = 0 /\ egptr = 0
    /\ errno = 0 /\ nReaderReads = 0 /\ lastUnderflow = NoUnderflow

\* ---- the copy engine's specification
InitCopy ==
    /\ shape \in Shapes
    /\ limit \in (IF shape = "Copy" THEN {NoLimit} ELSE (0..MaxLimit) \cup {NoLimit})
    /\ srcData \in {Iota(n) : n \in 0..MaxSrc}
    /\ copied = 0 /\ buf = <<>> /\ srcPos = 0 /\ dst = <<>> /\ stack = <<>>
    /\ pending = NoOp /\ started = FALSE /\ finished = <<>> /\ copy_ret = <<>>
    /\ firstErr = NoError /\ shortSeen = FALSE /\ nReads = 0 /\ nWrites = 0
    /\ readReqs = {} /\ lastRead = NoRead
    /\ RepeatIdle
    /\ BufferedIdle
    /\ ByteWriterIdle
    /\ BridgeIdle

NextCopy ==
    \/ AsyncCopyCall
    \/ SubmissionFails
    \/ SubmissionDeferred
    \/ CompletesInline
    \/ CompletesFromEventLoop
    \/ CopyIteration

SpecCopy == InitCopy /\ [][NextCopy]_vars

\* ---- claims about the copy engine (checked under SpecCopy)
\* The chain of an AsyncCopy call has ended: nothing is active, nothing pending.
ChainEnded == started /\ stack = <<>> /\ pending = NoOp

\* The terminal result: finished_handler's argument, or what Copy returned.
Terminal == IF shape = "Copy" THEN copy_ret ELSE [i \in DOMAIN finished |-> finished[i].err]

\* C1: in every AsyncCopy shape finished_handler is invoked at most once, and
\* exactly once when the chain has ended (nothing active, nothing pending); it
\* carries NoError when no read, write or submission failed and no write was
\* short, and an error otherwise.
C1_FinishedExactlyOnce ==
    shape \in AsyncShapes =>
        /\ Len(finished) <= 1
        /\ ChainEnded <=> Len(finished) = 1
        /\ Len(finished) = 1 =>
              (finished[1].err = NoError <=> (firstErr = NoError /\ ~shortSeen))

C1_Witness ==
    /\ shape = "AsyncWriter_AsyncReader"
    /\ ChainEnded
    /\ Len(finished) = 1
    /\ finished[1].err \in EnvErrors
    /\ nReads >= 2
    /\ nWrites >= 1

\* C2: with limit L every read request is sized min(buffer size, L - copied),
\* copied, the bytes taken from the source and the bytes written never exceed L,
\* and over a source of at least 2L bytes with no failing operation the chain
\* ends with exactly the first L bytes written and NoError.
C2_LimitEnforced ==
    shape \in AsyncShapes =>
        /\ \A p \in readReqs : p[1] = Min(BufSize, limit - p[2])
        /\ copied <= limit
        /\ srcPos <= limit
        /\ Len(dst) <= limit
        /\ (ChainEnded /\ Len(srcData) >= 2 * limit /\ firstErr = NoError /\ ~shortSeen)
              => /\ dst = Prefix(srcData, limit)
                 /\ Len(dst) = limit
                 /\ Len(finished) = 1
                 /\ finished[1].err = NoError

C2_Witness ==
    /\ shape \in AsyncShapes
    /\ ChainEnded
    /\ limit = MaxLimit
    /\ Len(srcData) >= 2 * limit
    /\ Len(dst) = limit
    /\ nReads >= 2
    /\ finished[1].err = NoError

\* C3: once a writer has accepted fewer bytes than offered (zero included), Copy
\* and every AsyncCopy shape have terminated with an io_error, and no further
\* Read / AsyncRead is issued on the source.
C3_ShortWriteIsTerminal ==
    /\ [](shortSeen => /\ Len(Terminal) = 1
                       /\ Terminal[1].code = "io_error"
                       /\ Terminal[1].msg # "")
    /\ [][shortSeen => nReads' = nReads]_vars

C3_Witness ==
    /\ shape = "Writer_AsyncReader"
    /\ shortSeen
    /\ Len(finished) = 1
    /\ nReads >= 2

\* C4: the first error a read, a write or a failed submission produces is the
\* terminal result of Copy and of every AsyncCopy shape, unchanged, and after it
\* no further read or write is issued.
C4_FirstErrorForwarded ==
    /\ [](firstErr # NoError => Terminal = <<firstErr>>)
    /\ [][firstErr # NoError => (nReads' = nReads /\ nWrites' = nWrites)]_vars

C4_Witness ==
    /\ shape = "AsyncWriter_Reader"
    /\ firstErr # NoError
    /\ Len(finished) = 1
    /\ nReads >= 2
    /\ nWrites >= 1

\* C5: whenever an AsyncCopy shape invokes finished_handler, no active call of
\* the engine still owns a reference to the CopyData, the reader or the writer.
C5_ReleasedBeforeFinished ==
    \A i \in DOMAIN finished : finished[i].refs = 0

\* C18: Copy(dst, src, buffer): while it runs every chunk read so far has been
\* written in full; it returns NoError exactly when its last read reported 0
\* bytes, and then the sink holds the bytes read from the source, in order; an
\* error of the source or of the writer is returned as it is; a read reporting
\* more bytes than the buffer holds returns a ProgrammingError, and no write is
\* made for that chunk.
C18_CopyResult ==
    shape = "Copy" =>
        /\ copy_ret = <<>> => (nWrites = nReads /\ dst = Prefix(srcData, srcPos))
        /\ copy_ret # <<>> =>
              /\ (copy_ret[1] = NoError) <=> (lastRead.ok /\ lastRead.val = 0)
              /\ copy_ret[1] = NoError =>
                    /\ dst = Prefix(srcData, srcPos)
                    /\ nWrites = nReads - 1
                    /\ ~shortSeen /\ firstErr = NoError
              /\ firstErr # NoError => copy_ret[1] = firstErr
              /\ (lastRead.ok /\ lastRead.val > BufSize) =>
                    /\ copy_ret[1].code = "ProgrammingError"
                    /\ nWrites = nReads - 1
                    /\ dst = Prefix(srcData, srcPos)

C18_Witness ==
    /\ shape = "Copy"
    /\ copy_ret = <<NoError>>
    /\ Len(srcData) = MaxSrc
    /\ dst = srcData
    /\ nWrites >= 3

\* C22: every range an AsyncCopy shape hands to Read / AsyncRead, the first one
\* included, and every range it hands to Write / AsyncWrite holds at least one
\* byte, whatever the limit.
C22_RangesNonEmpty ==
    shape \in AsyncShapes =>
        /\ \A p \in readReqs : p[1] > 0
        /\ pending.fn \in {"AsyncRead", "AsyncWrite"} => pending.n > 0
        /\ \A i \in DOMAIN stack :
              stack[i].fn \in {"AsyncRead", "AsyncWrite"} => stack[i].n > 0

\* ------------------------------------------------ AsyncReader::RepeatedAsyncRead
\* The calls one more submission puts on the stack when the handler given to
\* AsyncRead runs inside AsyncRead: operator() -> ScheduleNextRead -> AsyncRead.
NestedSubmission == <<"operator()", "ScheduleNextRead", "AsyncRead">>

\* What the user's handler may answer; the chain is cut after MaxSubmit
\* submissions.
Repeats == IF nSubmitted < MaxSubmit THEN {"Yes", "No"} ELSE {"No"}

\* Functor::ScheduleNextRead(repeat), called with `callers` active, up to the
\* point where it is inside reader.AsyncRead: the active calls then. With
\* Repeat::No it returns at once, and so does every caller.
ScheduleNextRead_IgnoresRepeat(callers, repeat) ==
    callers \o <<"ScheduleNextRead", "AsyncRead">>
ScheduleNextRead(callers, repeat) ==
    IF repeat = "Yes" THEN callers \o <<"ScheduleNextRead", "AsyncRead">> ELSE <<>>

\* The handler is invoked with a result and answers `repeat`.
HandlerCall(from, ok, repeat) == [from |-> from, ok |-> ok, ret |-> repeat]

RTopIsSubmission == rstack # <<>> /\ rstack[Len(rstack)] = "AsyncRead"

\* The stack becomes stk: a non-empty stk ends in a new AsyncRead submission.
RSetStack(stk) ==
    /\ rstack' = stk
    /\ nSubmitted' = IF stk # <<>> THEN nSubmitted + 1 ELSE nSubmitted

\* RepeatedAsyncRead(start, end, handler): func.ScheduleNextRead(Repeat::Yes).
RepeatedAsyncReadCall ==
    /\ ~rstarted
    /\ rstarted' = TRUE
    /\ RSetStack(ScheduleNextRead(<<"RepeatedAsyncRead">>, "Yes"))
    /\ UNCHANGED <<rpending, nFailed, handlerLog>>
    /\ UNCHANGED <<copyVars, bufVars, bwVars, sbVars>>

\* reader.AsyncRead returns an error: the loop of ScheduleNextRead hands it to
\* the handler and goes round again with the handler's answer.
RSubmissionFails_NotReported ==
    /\ RTopIsSubmission
    /\ \E repeat \in Repeats :
        LET callers == SubSeq(rstack, 1, Len(rstack) - 2) IN
        /\ handlerLog' = handlerLog
        /\ RSetStack(ScheduleNextRead(callers, repeat))
    /\ nFailed' = nFailed + 1
    /\ UNCHANGED <<rpending, rstarted>>
    /\ UNCHANGED <<copyVars, bufVars, bwVars, sbVars>>
RSubmissionFails ==
    /\ RTopIsSubmission
    /\ \E repeat \in Repeats :
        LET callers == SubSeq(rstack, 1, Len(rstack) - 2) IN
        /\ handlerLog' = Append(handlerLog, HandlerCall("submission", FALSE, repeat))
        /\ RSetStack(ScheduleNextRead(callers, repeat))
    /\ nFailed' = nFailed + 1
    /\ UNCHANGED <<rpending, rstarted>>
    /\ UNCHANGED <<copyVars, bufVars, bwVars, sbVars>>

\* reader.AsyncRead accepts the read and returns NoError: ScheduleNextRead
\* breaks out of its loop and every caller returns.
RSubmissionDeferred ==
    /\ RTopIsSubmission
    /\ rpending' = TRUE
    /\ rstack' = <<>>
    /\ UNCHANGED <<rstarted, nSubmitted, nFailed, handlerLog>>
    /\ UNCHANGED <<copyVars, bufVars, bwVars, sbVars>>

\* Functor::operator()(num_read), running on top of `callers`.
RunRepeatFunctor(callers, ok) ==
    \E repeat \in Repeats :
        /\ handlerLog' = Append(handlerLog, HandlerCall("completion", ok, repeat))
        /\ RSetStack(ScheduleNextRead(callers \o <<"operator()">>, repeat))

\* reader.AsyncRead completes the read before it returns: operator() runs
\* inside AsyncRead, on top of everything still active.
RCompletesInline ==
    /\ RTopIsSubmission
    /\ \E ok \in BOOLEAN : RunRepeatFunctor(rstack, ok)
    /\ UNCHANGED <<rpending, rstarted, nFailed>>
    /\ UNCHANGED <<copyVars, bufVars, bwVars, sbVars>>

\* The event loop completes the pending read.
RCompletesFromEventLoop ==
    /\ rstack = <<>>
    /\ rpending
    /\ rpending' = FALSE
    /\ \E ok \in BOOLEAN : RunRepeatFunctor(<<>>, ok)
    /\ UNCHANGED <<rstarted, nFailed>>
    /\ UNCHANGED <<copyVars, bufVars, bwVars, sbVars>>

InitRepeat ==
    /\ rstack = <<>> /\ rpending = FALSE /\ rstarted = FALSE /\ nSubmitted = 0
    /\ nFailed = 0 /\ handlerLog = <<>>
    /\ CopyIdle
    /\ BufferedIdle
    /\ ByteWriterIdle
    /\ BridgeIdle

NextRepeat ==
    \/ RepeatedAsyncReadCall
    \/ RSubmissionFails
    \/ RSubmissionDeferred
    \/ RCompletesInline
    \/ RCompletesFromEventLoop

SpecRepeat == InitRepeat /\ [][NextRepeat]_vars

\* ---- claims about RepeatedAsyncRead (checked under SpecRepeat)
LastRepeat == handlerLog[Len(handlerLog)].ret

\* C6: however many reads complete inside AsyncRead with the handler asking to
\* continue, the active calls never number more than two nested submissions need.
C6_DepthIndependentOfIterations ==
    Len(rstack) <= 2 * Len(NestedSubmission)

\* C7: after the first submission, an AsyncRead is submitted exactly in the
\* steps in which the handler was invoked and answered Repeat::Yes; once it has
\* answered Repeat::No nothing is active or pending and nothing is submitted
\* again; and every failed submission is handed to the handler as an error.
C7_RepeatDecidesResubmission ==
    /\ [][rstarted =>
            ((nSubmitted' = nSubmitted + 1)
                <=> (Len(handlerLog') = Len(handlerLog) + 1
                     /\ handlerLog'[Len(handlerLog')].ret = "Yes"))]_vars
    /\ [][nSubmitted' \in {nSubmitted, nSubmitted + 1}]_vars
    /\ []((handlerLog # <<>> /\ LastRepeat = "No") => (rstack = <<>> /\ ~rpending))
    /\ [][(handlerLog # <<>> /\ LastRepeat = "No") => nSubmitted' = nSubmitted]_vars
    /\ [][nFailed' = nFailed + 1 =>
            /\ Len(handlerLog') = Len(handlerLog) + 1
            /\ handlerLog'[Len(handlerLog')].from = "submission"
            /\ ~handlerLog'[Len(handlerLog')].ok]_vars
    /\ [](nFailed = Cardinality({i \in DOMAIN handlerLog :
                                    handlerLog[i].from = "submission"}))

C7_Witness ==
    /\ nFailed >= 2
    /\ nSubmitted = MaxSubmit
    /\ handlerLog # <<>>
    /\ LastRepeat = "No"
    /\ handlerLog[Len(handlerLog)].from = "submission"
    /\ \E i \in DOMAIN handlerLog : handlerLog[i].from = "completion"

\* ------------------------------------- BufferedReader / AsyncBufferedReader
Bytes == {1, 2}
Kinds == {"BufferedReader", "AsyncBufferedReader"}

\* The fields of a buffered reader, as one value.
This == [buffer_ |-> buffer_, bytes_read_ |-> bytes_read_,
         buffer_remaining_ |-> buffer_remaining_, rewind_done_ |-> rewind_done_,
         rewind_consumed_ |-> rewind_consumed_, stop_done_ |-> stop_done_]

\* ExpectedSize together with the bytes placed in the caller's range.
Got(data) == [ok |-> TRUE, val |-> Len(data), err |-> NoError, data |-> data]
Failed(e) == [ok |-> FALSE, val |-> 0, err |-> e, data |-> <<>>]

AssertionFailed == Error("ProgrammingError", "Assertion failed")

\* What the wrapped reader may deliver for a range of n bytes: at most n of its
\* next bytes, none only at the end of its data, or an error.
WrappedLeft == Len(wrapped) - wpos
WrappedResults(n) ==
    {Got(SubSeq(wrapped, wpos + 1, wpos + k)) :
        k \in (IF WrappedLeft = 0 THEN {0} ELSE 1..Min(n, WrappedLeft))}
    \cup {Failed(e) : e \in EnvErrors}

\* ByteReader::Read over `emitter` with cursor bytes_read, for a range of n
\* bytes: the count and the bytes. max_read is unsigned: with the cursor past
\* the end it wraps to a huge value and the whole range is read, past the end
\* of the container (the bytes there are shown as 0).
ByteReader_Read(emitter, bytes_read, n) ==
    LET max_read == Len(emitter) - bytes_read
        bytes_to_read == IF max_read < 0 THEN n ELSE Min(n, max_read)
    IN [i \in 1..bytes_to_read |->
            IF bytes_read + i <= Len(emitter) THEN emitter[bytes_read + i] ELSE 0]

BufferedReader_Read_RecordsReplay(t, n, w) ==
    IF t.rewind_done_ /\ ~t.rewind_consumed_
    THEN LET data == ByteReader_Read(t.buffer_, t.bytes_read_, n)
             t1 == [t EXCEPT !.bytes_read_ = @ + Len(data)]
             left == t.buffer_remaining_ - Len(data)
         IN IF ~(Len(data) > 0) THEN [t |-> t1, ret |-> Failed(AssertionFailed), from |-> "buffer"]
            ELSE IF ~(t.buffer_remaining_ >= Len(data))
                 THEN [t |-> t1, ret |-> Failed(AssertionFailed), from |-> "buffer"]
            ELSE [t |-> [t1 EXCEPT !.buffer_remaining_ = left,
                                   !.rewind_consumed_ = IF left = 0 THEN TRUE ELSE @,
                                   !.buffer_ = IF left = 0 /\ t.stop_done_ THEN <<>>
                                               ELSE IF ~t.stop_done_ THEN @ \o data ELSE @],
                  ret |-> Got(data), from |-> "buffer"]
    ELSE IF ~w.ok THEN [t |-> t, ret |-> w, from |-> "wrapped"]
    ELSE [t |-> [t EXCEPT !.buffer_ = IF ~t.stop_done_ THEN @ \o w.data ELSE @],
          ret |-> w, from |-> "wrapped"]
BufferedReader_Read_KeepsBufferAfterFinalReplay(t, n, w) ==
    IF t.rewind_done_ /\ ~t.rewind_consumed_
    THEN LET data == ByteReader_Read(t.buffer_, t.bytes_read_, n)
             t1 == [t EXCEPT !.bytes_read_ = @ + Len(data)]
             left == t.buffer_remaining_ - Len(data)
         IN IF ~(Len(data) > 0) THEN [t |-> t1, ret |-> Failed(AssertionFailed), from |-> "buffer"]
            ELSE IF ~(t.buffer_remaining_ >= Len(data))
                 THEN [t |-> t1, ret |-> Failed(AssertionFailed), from |-> "buffer"]
            ELSE [t |-> [t1 EXCEPT !.buffer_remaining_ = left,
                                   !.rewind_consumed_ = IF left = 0 THEN TRUE ELSE @],
                  ret |-> Got(data), from |-> "buffer"]
    ELSE IF ~w.ok THEN [t |-> t, ret |-> w, from |-> "wrapped"]
    ELSE [t |-> [t EXCEPT !.buffer_ = IF ~t.stop_done_ THEN @ \o w.data ELSE @],
          ret |-> w, from |-> "wrapped"]

\* BufferedReader::Read(start, end) with end - start = n; w is what
\* wrapped_reader_.Read returns if it is called.
BufferedReader_Read_RecordsNothing(t, n, w) ==
    IF t.rewind_done_ /\ ~t.rewind_consumed_
    THEN LET data == ByteReader_Read(t.buffer_, t.bytes_read_, n)
             t1 == [t EXCEPT !.bytes_read_ = @ + Len(data)]
             left == t.buffer_remaining_ - Len(data)
         IN IF ~(Len(data) > 0) THEN [t |-> t1, ret |-> Failed(AssertionFailed), from |-> "buffer"]
            ELSE IF ~(t.buffer_remaining_ >= Len(data))
                 THEN [t |-> t1, ret |-> Failed(AssertionFailed), from |-> "buffer"]
            ELSE [t |-> [t1 EXCEPT !.buffer_remaining_ = left,
                                   !.rewind_consumed_ = IF left = 0 THEN TRUE ELSE @,
                                   !.buffer_ = IF left = 0 /\ t.stop_done_ THEN <<>> ELSE @],
                  ret |-> Got(data), from |-> "buffer"]
    ELSE [t |-> t, ret |-> w, from |-> "wrapped"]
BufferedReader_Read(t, n, w) ==
    IF t.rewind_done_ /\ ~t.rewind_consumed_
    THEN LET data == ByteReader_Read(t.buffer_, t.bytes_read_, n)
             t1 == [t EXCEPT !.bytes_read_ = @ + Len(data)]
             left == t.buffer_remaining_ - Len(data)
         IN IF ~(Len(data) > 0) THEN [t |-> t1, ret |-> Failed(AssertionFailed), from |-> "buffer"]
            ELSE IF ~(t.buffer_remaining_ >= Len(data))
                 THEN [t |-> t1, ret |-> Failed(AssertionFailed), from |-> "buffer"]
            ELSE [t |-> [t1 EXCEPT !.buffer_remaining_ = left,
                                   !.rewind_consumed_ = IF left = 0 THEN TRUE ELSE @,
                                   !.buffer_ = IF left = 0 /\ t.stop_done_ THEN <<>> ELSE @],
                  ret |-> Got(data), from |-> "buffer"]
    ELSE IF ~w.ok THEN [t |-> t, ret |-> w, from |-> "wrapped"]
    ELSE [t |-> [t EXCEPT !.buffer_ = IF ~t.stop_done_ THEN @ \o w.data ELSE @],
          ret |-> w, from |-> "wrapped"]

\* BufferedReader::Rewind()
BufferedReader_Rewind_UntilConsumed(t) ==
    IF t.stop_done_ /\ t.rewind_done_ /\ t.rewind_consumed_
    THEN [t |-> t,
          ret |-> Unexpected(Error("io_error", "Buffering was stopped, cannot rewind anymore"))]
    ELSE LET size == Len(t.buffer_) IN
         [t |-> [t EXCEPT !.bytes_read_ = 0, !.rewind_done_ = TRUE,
                          !.buffer_remaining_ = size, !.rewind_consumed_ = (size = 0)],
          ret |-> Ok(size)]
BufferedReader_Rewind(t) ==
    IF t.stop_done_ /\ t.rewind_done_
    THEN [t |-> t,
          ret |-> Unexpected(Error("io_error", "Buffering was stopped, cannot rewind anymore"))]
    ELSE LET size == Len(t.buffer_) IN
         [t |-> [t EXCEPT !.bytes_read_ = 0, !.rewind_done_ = TRUE,
                          !.buffer_remaining_ = size, !.rewind_consumed_ = (size = 0)],
          ret |-> Ok(size)]

BufferedReader_StopBufferingAndRewind_WithoutRewind(t) ==
    [t |-> [t EXCEPT !.stop_done_ = TRUE], ret |-> Ok(Len(t.buffer_))]

\* BufferedReader::StopBufferingAndRewind()
BufferedReader_StopBufferingAndRewind(t) ==
    LET result == BufferedReader_Rewind(t) IN
    [t |-> [result.t EXCEPT !.stop_done_ = TRUE], ret |-> result.ret]

BufferedReader_StopBufferingAndDiscard_WhileReplaying(t) ==
    [t |-> [t EXCEPT !.stop_done_ = TRUE, !.rewind_consumed_ = TRUE,
                     !.buffer_ = <<>>],
     ret |-> Ok(0)]
\* BufferedReader::StopBufferingAndDiscard(); Ok(0) stands for NoError.
BufferedReader_StopBufferingAndDiscard(t) ==
    IF t.rewind_done_ /\ ~t.rewind_consumed_
    THEN [t |-> t,
          ret |-> Unexpected(Error("io_error", "Cannot stop buffering, pending rewind read"))]
    ELSE [t |-> [t EXCEPT !.stop_done_ = TRUE, !.rewind_consumed_ = TRUE,
                          !.buffer_ = <<>>],
          ret |-> Ok(0)]

\* AsyncBufferedReader::AsyncRead, the branch that reads from the buffer:
\* `handler` lists the results handed to the caller's handler, ret is the Error
\* that AsyncRead returns.
AsyncBufferedReader_AsyncRead_Buffer(t, n) ==
    LET data == ByteReader_Read(t.buffer_, t.bytes_read_, n)
        t1 == [t EXCEPT !.bytes_read_ = @ + Len(data)]
        left == t.buffer_remaining_ - Len(data)
    IN IF ~(Len(data) > 0) THEN [t |-> t1, ret |-> AssertionFailed, handler |-> <<>>]
       ELSE IF ~(t.buffer_remaining_ >= Len(data))
            THEN [t |-> t1, ret |-> AssertionFailed, handler |-> <<>>]
       ELSE [t |-> [t1 EXCEPT !.buffer_remaining_ = left,
                              !.rewind_consumed_ = IF left = 0 THEN TRUE ELSE @,
                              !.buffer_ = IF left = 0 /\ t.stop_done_ THEN <<>> ELSE @],
             ret |-> NoError, handler |-> <<Got(data)>>]

AsyncBufferedReader_wrapper_handler_FallsThrough(t, result) ==
    IF ~result.ok THEN [t |-> t, handler |-> <<result, result>>]
    ELSE [t |-> [t EXCEPT !.buffer_ = IF ~t.stop_done_ THEN @ \o result.data ELSE @],
          handler |-> <<result>>]

\* AsyncBufferedReader::AsyncRead's wrapper_handler, given the wrapped
\* reader's result.
AsyncBufferedReader_wrapper_handler(t, result) ==
    IF ~result.ok THEN [t |-> t, handler |-> <<result>>]
    ELSE [t |-> [t EXCEPT !.buffer_ = IF ~t.stop_done_ THEN @ \o result.data ELSE @],
          handler |-> <<result>>]

\* AsyncBufferedReader::Rewind()
AsyncBufferedReader_Rewind(t) ==
    IF t.stop_done_ /\ t.rewind_done_
    THEN [t |-> t,
          ret |-> Unexpected(Error("io_error", "Buffering was stopped, cannot rewind anymore"))]
    ELSE LET size == Len(t.buffer_) IN
         [t |-> [t EXCEPT !.bytes_read_ = 0, !.rewind_done_ = TRUE,
                          !.buffer_remaining_ = size, !.rewind_consumed_ = (size = 0)],
          ret |-> Ok(size)]

\* AsyncBufferedReader::StopBufferingAndRewind()
AsyncBufferedReader_StopBufferingAndRewind(t) ==
    LET result == AsyncBufferedReader_Rewind(t) IN
    [t |-> [result.t EXCEPT !.stop_done_ = TRUE], ret |-> result.ret]

\* AsyncBufferedReader::StopBufferingAndDiscard(); Ok(0) stands for NoError.
AsyncBufferedReader_StopBufferingAndDiscard(t) ==
    IF t.rewind_done_ /\ ~t.rewind_consumed_
    THEN [t |-> t,
          ret |-> Unexpected(Error("io_error", "Cannot stop buffering, pending rewind read"))]
    ELSE [t |-> [t EXCEPT !.stop_done_ = TRUE, !.rewind_consumed_ = TRUE,
                          !.buffer_ = <<>>],
          ret |-> Ok(0)]

\* ---- the operations on a buffered reader
SetThis(t) ==
    /\ buffer_' = t.buffer_
    /\ bytes_read_' = t.bytes_read_
    /\ buffer_remaining_' = t.buffer_remaining_
    /\ rewind_done_' = t.rewind_done_
    /\ rewind_consumed_' = t.rewind_consumed_
    /\ stop_done_' = t.stop_done_

\* The read / Rewind / read-again scenario: "first" until a read reports 0
\* bytes, then "drained"; Rewind there starts "second", which collects what the
\* caller is given until a read reports 0 bytes again ("done"). Any other
\* Rewind or stop leaves the scenario ("off").
ScenarioAfterRead(ret) ==
    /\ phase' = IF phase = "first" /\ ret.ok /\ ret.val = 0 THEN "drained"
                ELSE IF phase = "second" /\ ret.ok /\ ret.val = 0 THEN "done"
                ELSE phase
    /\ pass2' = IF phase = "second" /\ ret.ok THEN pass2 \o ret.data ELSE pass2
    /\ UNCHANGED rewindRet
ScenarioAfterRewind(ret) ==
    IF phase = "drained" /\ ret.ok
    THEN phase' = "second" /\ rewindRet' = ret.val /\ pass2' = <<>>
    ELSE phase' = "off" /\ rewindRet' = 0 /\ pass2' = <<>>
ScenarioLeft == phase' = "off" /\ rewindRet' = 0 /\ pass2' = <<>>

\* The caller's view of the final replay: armed by a StopBufferingAndRewind
\* that returned a count, advanced by every read that gives the caller bytes.
FinalArmed(ret) ==
    final' = IF ret.ok
             THEN [on |-> TRUE, n |-> ret.val, recorded |-> buffer_, got |-> <<>>,
                   sources |-> {}, later |-> {}]
             ELSE final
FinalAfterRead(ret, from) ==
    final' = IF ~final.on \/ ~ret.ok THEN final
             ELSE IF Len(final.got) < final.n
                  THEN [final EXCEPT !.got = @ \o ret.data, !.sources = @ \cup {from}]
             ELSE [final EXCEPT !.later = @ \cup {from}]

Ranges == 1..MaxRange

\* BufferedReader::Read
Read ==
    /\ kind = "BufferedReader"
    /\ \E n \in Ranges : \E w \in WrappedResults(n) :
        LET r == BufferedReader_Read(This, n, w) IN
        /\ SetThis(r.t)
        /\ wpos' = IF r.from = "wrapped" THEN wpos + w.val ELSE wpos
        /\ lastOp' = Operation("Read", n, r.ret.ok, r.ret.val, r.ret.err, r.from,
                               0, NoError)
        /\ ScenarioAfterRead(r.ret)
        /\ FinalAfterRead(r.ret, r.from)
    /\ tick' = ~tick
    /\ UNCHANGED <<kind, wrapped, wpending, discarded>>
    /\ UNCHANGED <<copyVars, repVars, bwVars, sbVars>>

\* BufferedReader::Rewind
Rewind ==
    /\ kind = "BufferedReader"
    /\ LET r == BufferedReader_Rewind(This) IN
        /\ SetThis(r.t)
        /\ lastOp' = Operation("Rewind", 0, r.ret.ok, r.ret.val, r.ret.err, "none",
                               0, NoError)
        /\ ScenarioAfterRewind(r.ret)
    /\ tick' = ~tick
    /\ UNCHANGED <<kind, wrapped, wpos, wpending, discarded, final>>
    /\ UNCHANGED <<copyVars, repVars, bwVars, sbVars>>

\* BufferedReader::StopBufferingAndRewind
StopBufferingAndRewind ==
    /\ kind = "BufferedReader"
    /\ LET r == BufferedReader_StopBufferingAndRewind(This) IN
        /\ SetThis(r.t)
        /\ lastOp' = Operation("StopBufferingAndRewind", 0, r.ret.ok, r.ret.val,
                               r.ret.err, "none", 0, NoError)
        /\ FinalArmed(r.ret)
    /\ ScenarioLeft
    /\ tick' = ~tick
    /\ UNCHANGED <<kind, wrapped, wpos, wpending, discarded>>
    /\ UNCHANGED <<copyVars, repVars, bwVars, sbVars>>

\* BufferedReader::StopBufferingAndDiscard
StopBufferingAndDiscard ==
    /\ kind = "BufferedReader"
    /\ LET r == BufferedReader_StopBufferingAndDiscard(This) IN
        /\ SetThis(r.t)
        /\ lastOp' = Operation("StopBufferingAndDiscard", 0, r.ret.ok, r.ret.val,
                               r.ret.err, "none", 0, NoError)
        /\ discarded' = (discarded \/ r.ret.ok)
    /\ ScenarioLeft
    /\ tick' = ~tick
    /\ UNCHANGED <<kind, wrapped, wpos, wpending, final>>
    /\ UNCHANGED <<copyVars, repVars, bwVars, sbVars>>

\* AsyncBufferedReader::AsyncRead takes the branch that reads from the buffer.
AsyncBufferedReader_ReadsBuffer(t) == t.rewind_done_ /\ ~t.rewind_consumed_

\* AsyncBufferedReader::AsyncRead, one read at a time. From the buffer the
\* handler runs before AsyncRead returns; otherwise wrapped_reader_.AsyncRead
\* refuses the read, completes it before returning, or leaves it pending.
AsyncRead ==
    /\ kind = "AsyncBufferedReader"
    /\ wpending = -1
    /\ \E n \in Ranges :
        \/ /\ AsyncBufferedReader_ReadsBuffer(This)
           /\ LET r == AsyncBufferedReader_AsyncRead_Buffer(This, n) IN
               /\ SetThis(r.t)
               /\ lastOp' = Operation("AsyncRead", n, r.ret = NoError,
                                      IF r.handler = <<>> THEN 0 ELSE r.handler[1].val,
                                      r.ret, "buffer", Len(r.handler), NoError)
               /\ IF r.handler = <<>>
                  THEN UNCHANGED <<phase, pass2, rewindRet, final>>
                  ELSE ScenarioAfterRead(r.handler[1])
                       /\ FinalAfterRead(r.handler[1], "buffer")
           /\ UNCHANGED <<wpos, wpending>>
        \/ /\ ~AsyncBufferedReader_ReadsBuffer(This)
           /\ \E e \in EnvErrors :
               lastOp' = Operation("AsyncRead", n, FALSE, 0, e, "wrapped", 0, NoError)
           /\ UNCHANGED <<buffer_, bytes_read_, buffer_remaining_, rewind_done_,
                          rewind_consumed_, stop_done_, wpos, wpending, phase, pass2,
                          rewindRet, final>>
        \/ /\ ~AsyncBufferedReader_ReadsBuffer(This)
           /\ \E w \in WrappedResults(n) :
               LET h == AsyncBufferedReader_wrapper_handler(This, w) IN
               /\ SetThis(h.t)
               /\ wpos' = wpos + w.val
               /\ lastOp' = Operation("AsyncRead", n, TRUE, h.handler[1].val, NoError,
                                      "wrapped", Len(h.handler), h.handler[1].err)
               /\ ScenarioAfterRead(h.handler[1])
               /\ FinalAfterRead(h.handler[1], "wrapped")
           /\ UNCHANGED wpending
        \/ /\ ~AsyncBufferedReader_ReadsBuffer(This)
           /\ wpending' = n
           /\ lastOp' = Operation("AsyncRead", n, TRUE, 0, NoError, "wrapped", 0, NoError)
           /\ UNCHANGED <<buffer_, bytes_read_, buffer_remaining_, rewind_done_,
                          rewind_consumed_, stop_done_, wpos, phase, pass2, rewindRet,
                          final>>
    /\ tick' = ~tick
    /\ UNCHANGED <<kind, wrapped, discarded>>
    /\ UNCHANGED <<copyVars, repVars, bwVars, sbVars>>

\* The event loop completes the pending wrapped read: wrapper_handler runs.
WrappedReadCompletes ==
    /\ kind = "AsyncBufferedReader"
    /\ wpending # -1
    /\ \E w \in WrappedResults(wpending) :
        LET h == AsyncBufferedReader_wrapper_handler(This, w) IN
        /\ SetThis(h.t)
        /\ wpos' = wpos + w.val
        /\ lastOp' = Operation("wrapper_handler", wpending, TRUE, h.handler[1].val,
                               NoError, "wrapped", Len(h.handler), h.handler[1].err)
        /\ ScenarioAfterRead(h.handler[1])
        /\ FinalAfterRead(h.handler[1], "wrapped")
    /\ wpending' = -1
    /\ tick' = ~tick
    /\ UNCHANGED <<kind, wrapped, discarded>>
    /\ UNCHANGED <<copyVars, repVars, bwVars, sbVars>>

\* AsyncBufferedReader::Rewind
AsyncRewind ==
    /\ kind = "AsyncBufferedReader"
    /\ LET r == AsyncBufferedReader_Rewind(This) IN
        /\ SetThis(r.t)
        /\ lastOp' = Operation("Rewind", 0, r.ret.ok, r.ret.val, r.ret.err, "none",
                               0, NoError)
        /\ ScenarioAfterRewind(r.ret)
    /\ tick' = ~tick
    /\ UNCHANGED <<kind, wrapped, wpos, wpending, discarded, final>>
    /\ UNCHANGED <<copyVars, repVars, bwVars, sbVars>>

\* AsyncBufferedReader::StopBufferingAndRewind
AsyncStopBufferingAndRewind ==
    /\ kind = "AsyncBufferedReader"
    /\ LET r == AsyncBufferedReader_StopBufferingAndRewind(This) IN
        /\ SetThis(r.t)
        /\ lastOp' = Operation("StopBufferingAndRewind", 0, r.ret.ok, r.ret.val,
                               r.ret.err, "none", 0, NoError)
        /\ FinalArmed(r.ret)
    /\ ScenarioLeft
    /\ tick' = ~tick
    /\ UNCHANGED <<kind, wrapped, wpos, wpending, discarded>>
    /\ UNCHANGED <<copyVars, repVars, bwVars, sbVars>>

\* AsyncBufferedReader::StopBufferingAndDiscard
AsyncStopBufferingAndDiscard ==
    /\ kind = "AsyncBufferedReader"
    /\ LET r == AsyncBufferedReader_StopBufferingAndDiscard(This) IN
        /\ SetThis(r.t)
        /\ lastOp' = Operation("StopBufferingAndDiscard", 0, r.ret.ok, r.ret.val,
                               r.ret.err, "none", 0, NoError)
        /\ discarded' = (discarded \/ r.ret.ok)
    /\ ScenarioLeft
    /\ tick' = ~tick
    /\ UNCHANGED <<kind, wrapped, wpos, wpending, final>>
    /\ UNCHANGED <<copyVars, repVars, bwVars, sbVars>>

InitBuffered ==
    /\ kind \in Kinds
    /\ wrapped \in UNION {[1..n -> Bytes] : n \in 0..MaxWrapped}
    /\ wpos = 0 /\ buffer_ = <<>> /\ bytes_read_ = 0 /\ buffer_remaining_ = 0
    /\ rewind_done_ = FALSE /\ rewind_consumed_ = FALSE /\ stop_done_ = FALSE
    /\ wpending = -1 /\ lastOp = NoOperation /\ tick = FALSE
    /\ phase = "first" /\ pass2 = <<>> /\ rewindRet = 0 /\ discarded = FALSE
    /\ final = NoFinal
    /\ CopyIdle
    /\ RepeatIdle
    /\ ByteWriterIdle
    /\ BridgeIdle

NextBuffered ==
    \/ Read
    \/ Rewind
    \/ StopBufferingAndRewind
    \/ StopBufferingAndDiscard
    \/ AsyncRead
    \/ WrappedReadCompletes
    \/ AsyncRewind
    \/ AsyncStopBufferingAndRewind
    \/ AsyncStopBufferingAndDiscard

SpecBuffered == InitBuffered /\ [][NextBuffered]_vars

\* ---- claims about the buffered readers (checked under SpecBuffered)
\* Every byte the wrapped reader has returned so far.
Delivered == SubSeq(wrapped, 1, wpos)

\* C8: BufferedReader: after reads up to a 0-byte read, Rewind() returns the
\* number of bytes the wrapped reader delivered, the reads that follow return
\* those bytes in order, in whatever chunks, and when a read reports 0 bytes
\* again exactly the delivered sequence has been returned.
C8_RewindReplaysEverything ==
    kind = "BufferedReader" =>
        /\ phase \in {"second", "done"} =>
              /\ rewindRet = Len(Delivered)
              /\ Delivered = wrapped
              /\ pass2 = Prefix(Delivered, Len(pass2))
        /\ phase = "done" => (pass2 = Delivered /\ Len(pass2) = rewindRet)

C8_Witness ==
    /\ kind = "BufferedReader"
    /\ phase = "done"
    /\ Len(pass2) = MaxWrapped
    /\ pass2[1] # pass2[2]
    /\ lastOp.op = "Read" /\ lastOp.from = "wrapped" /\ lastOp.val = 0

\* C9: once StopBufferingAndDiscard() has succeeded, a Rewind() fails.
C9_RewindFailsAfterDiscard ==
    (discarded /\ lastOp.op = "Rewind") => ~lastOp.ok

\* A step that is a call of Rewind() (of either class).
RewindStep == tick' # tick /\ lastOp'.op = "Rewind"

\* C10 as stated: Rewind() fails exactly when recording has been stopped and a
\* previous replay has run to completion, and succeeds in every other state.
C10_FailsOnlyAfterCompletedReplay ==
    [][RewindStep =>
        (~lastOp'.ok <=> (stop_done_ /\ rewind_done_ /\ rewind_consumed_))]_vars

\* C10 as amended: Rewind() fails exactly when recording has been stopped and a
\* rewind has been done before, whether or not that replay has been consumed,
\* and then changes nothing; in every other state it succeeds, resets the replay
\* cursor to 0, arms a replay of the whole internal buffer and returns the
\* number of bytes in the internal buffer.
C10_FailsOnceStoppedAndRewound ==
    [][RewindStep =>
        /\ ~lastOp'.ok <=> (stop_done_ /\ rewind_done_)
        /\ lastOp'.ok =>
              /\ bytes_read_' = 0
              /\ lastOp'.val = Len(buffer_)
              /\ buffer_remaining_' = Len(buffer_)
              /\ rewind_done_'
              /\ rewind_consumed_' = (buffer_ = <<>>)
              /\ buffer_' = buffer_ /\ stop_done_' = stop_done_
        /\ ~lastOp'.ok =>
              UNCHANGED <<buffer_, bytes_read_, buffer_remaining_, rewind_done_,
                          rewind_consumed_, stop_done_>>]_vars

C10_Witness ==
    /\ kind = "BufferedReader"
    /\ lastOp.op = "Rewind"
    /\ ~lastOp.ok
    /\ stop_done_ /\ rewind_done_ /\ ~rewind_consumed_
    /\ bytes_read_ > 0 /\ buffer_remaining_ > 0

\* A step that is a call of StopBufferingAndDiscard() (of either class).
DiscardStep == tick' # tick /\ lastOp'.op = "StopBufferingAndDiscard"
\* A step in which a read hands its result to the caller.
ReadStep == tick' # tick /\ lastOp'.op \in {"Read", "AsyncRead", "wrapper_handler"}
\* A replay is armed and not exhausted.
Replaying == rewind_done_ /\ ~rewind_consumed_

\* C11: StopBufferingAndDiscard() fails exactly when a replay is armed and not
\* exhausted, and then leaves the internal buffer, the replay position and all
\* flags as they were; in every other state it succeeds and leaves the internal
\* buffer empty, and from then on no replay is armed, every read takes its
\* bytes from the wrapped reader and the internal buffer stays empty.
C11_DiscardFailsOnlyWhileReplaying ==
    /\ [][DiscardStep =>
            /\ ~lastOp'.ok <=> Replaying
            /\ ~lastOp'.ok =>
                  UNCHANGED <<buffer_, bytes_read_, buffer_remaining_, rewind_done_,
                              rewind_consumed_, stop_done_>>
            /\ lastOp'.ok => (buffer_' = <<>> /\ stop_done_')]_vars
    /\ [](discarded => (buffer_ = <<>> /\ stop_done_ /\ ~Replaying))
    /\ [][(discarded /\ ReadStep) =>
            (lastOp'.from = "wrapped" /\ buffer_' = <<>>)]_vars

C11_Witness ==
    /\ lastOp.op = "StopBufferingAndDiscard"
    /\ ~lastOp.ok
    /\ Replaying
    /\ bytes_read_ > 0 /\ buffer_remaining_ > 0
    /\ ~stop_done_

\* C12: BufferedReader: once StopBufferingAndRewind() has returned n, n is the
\* number of bytes recorded so far; the reads that follow give the caller
\* exactly those bytes, in order and from the internal buffer only, which is
\* kept until then; when the n-th byte has been given the internal buffer is
\* empty, and every later read takes its bytes from the wrapped reader and
\* records nothing.
C12_FinalReplay ==
    (kind = "BufferedReader" /\ final.on) =>
        /\ final.n = Len(final.recorded)
        /\ ~discarded => final.recorded = Prefix(wrapped, final.n)
        /\ Len(final.got) <= final.n
        /\ final.got = Prefix(final.recorded, Len(final.got))
        /\ final.sources \subseteq {"buffer"}
        /\ Len(final.got) < final.n =>
              (buffer_ = final.recorded /\ Replaying /\ final.later = {})
        /\ Len(final.got) = final.n => (buffer_ = <<>> /\ ~Replaying)
        /\ final.later \subseteq {"wrapped"}

C12_Witness ==
    /\ kind = "BufferedReader"
    /\ final.on
    /\ final.n = 2
    /\ final.got = final.recorded
    /\ final.got[1] # final.got[2]
    /\ final.later = {"wrapped"}
    /\ lastOp.op = "Read" /\ lastOp.val = 1
    /\ buffer_ = <<>>

\* C13: in every reachable state of a buffered reader the replay cursor
\* (buffer_reader_'s position) is at most the length of the internal buffer.
C13_CursorWithinBuffer == bytes_read_ <= Len(buffer_)

\* C14: whenever recording has been stopped and no replay is pending (none was
\* armed, or the armed one has been consumed) the internal buffer is empty, and
\* whatever is called next it stays empty with recording stopped and no replay
\* pending.
C14_StoppedBufferStaysEmpty ==
    /\ []((stop_done_ /\ ~Replaying) => buffer_ = <<>>)
    /\ [][(stop_done_ /\ ~Replaying) =>
            (stop_done_' /\ ~(rewind_done_' /\ ~rewind_consumed_') /\ buffer_' = <<>>)]_vars

C14_Witness ==
    /\ kind = "AsyncBufferedReader"
    /\ stop_done_ /\ rewind_done_ /\ rewind_consumed_
    /\ final.on /\ final.n > 0 /\ Len(final.got) = final.n
    /\ lastOp.op = "wrapper_handler" /\ lastOp.val > 0
    /\ buffer_ = <<>>

\* A step that is a call of Read / AsyncRead.
ReadCall == tick' # tick /\ lastOp'.op \in {"Read", "AsyncRead"}

\* C15: a Read / AsyncRead called while a replay is armed and not exhausted
\* takes its bytes from the internal buffer only, succeeds, and returns at
\* least 1 byte and at most the remaining replay count: neither
\* consistency-fault branch is ever taken.
C15_ReplayNeverFaults ==
    [][(Replaying /\ ReadCall) =>
          /\ lastOp'.from = "buffer"
          /\ lastOp'.ok
          /\ lastOp'.val >= 1
          /\ lastOp'.val <= buffer_remaining_
          /\ wpos' = wpos]_vars

\* The fields of the buffered reader after the step.
ThisNext == [buffer_ |-> buffer_', bytes_read_ |-> bytes_read_',
             buffer_remaining_ |-> buffer_remaining_', rewind_done_ |-> rewind_done_',
             rewind_consumed_ |-> rewind_consumed_', stop_done_ |-> stop_done_']

\* The step's read, of range n, gave the caller's handler and left the reader
\* what BufferedReader::Read gives and leaves for some result w of the wrapped
\* reader.
SameAsRead(n) ==
    \E w \in WrappedResults(n) :
        LET r == BufferedReader_Read(This, n, w) IN
        /\ ThisNext = r.t
        /\ lastOp'.from = r.from
        /\ lastOp'.val = r.ret.val
        /\ lastOp'.herr = r.ret.err
        /\ wpos' = IF r.from = "wrapped" THEN wpos + w.val ELSE wpos

\* The step's call returned and left the reader what the BufferedReader
\* operation r returns and leaves.
SameAsCall(r) ==
    /\ ThisNext = r.t
    /\ lastOp'.ok = r.ret.ok /\ lastOp'.val = r.ret.val /\ lastOp'.err = r.ret.err

\* C16: every operation of AsyncBufferedReader returns (or hands to the
\* caller's handler) and leaves behind exactly what the same operation of
\* BufferedReader does in the same state with the same result of the wrapped
\* reader, a read taking effect where its result reaches the caller's handler;
\* a read that is only submitted, or refused by the wrapped reader, changes
\* nothing.
C16_AsyncSameAsSync ==
    [][(kind = "AsyncBufferedReader" /\ tick' # tick) =>
        CASE lastOp'.op = "Rewind" -> SameAsCall(BufferedReader_Rewind(This))
          [] lastOp'.op = "StopBufferingAndRewind" ->
                SameAsCall(BufferedReader_StopBufferingAndRewind(This))
          [] lastOp'.op = "StopBufferingAndDiscard" ->
                SameAsCall(BufferedReader_StopBufferingAndDiscard(This))
          [] lastOp'.op = "wrapper_handler" -> SameAsRead(wpending)
          [] lastOp'.op = "AsyncRead" /\ lastOp'.handlers = 1 -> SameAsRead(lastOp'.n)
          [] lastOp'.op = "AsyncRead" /\ lastOp'.handlers = 0 /\ lastOp'.from = "wrapped" ->
                ThisNext = This /\ wpos' = wpos
          [] OTHER ->
                \E w \in WrappedResults(lastOp'.n) :
                    LET r == BufferedReader_Read(This, lastOp'.n, w) IN
                    ThisNext = r.t /\ ~r.ret.ok /\ lastOp'.err = r.ret.err]_vars

\* C17: AsyncBufferedReader::AsyncRead that returns an Error does not invoke
\* the caller's handler and leaves no read in flight; one that returns NoError
\* has either invoked the handler once before returning or left one wrapped
\* read in flight, whose completion invokes the handler once and ends the
\* flight; no other operation invokes the handler.
C17_HandlerOncePerAcceptedRead ==
    [][(kind = "AsyncBufferedReader" /\ tick' # tick) =>
        CASE lastOp'.op = "AsyncRead" /\ ~lastOp'.ok ->
                lastOp'.handlers = 0 /\ wpending' = -1
          [] lastOp'.op = "AsyncRead" /\ lastOp'.ok ->
                /\ wpending = -1
                /\ lastOp'.handlers = (IF wpending' = -1 THEN 1 ELSE 0)
          [] lastOp'.op = "wrapper_handler" ->
                wpending # -1 /\ wpending' = -1 /\ lastOp'.handlers = 1
          [] OTHER -> lastOp'.handlers = 0 /\ wpending' = wpending]_vars

C17_Witness ==
    /\ kind = "AsyncBufferedReader"
    /\ lastOp.op = "wrapper_handler"
    /\ lastOp.handlers = 1
    /\ lastOp.herr # NoError
    /\ wpending = -1
    /\ rewind_done_ /\ rewind_consumed_ /\ buffer_ # <<>>

\* ------------------------------------------------------------- ByteWriter
\* vector::resize(n): cut to n elements, or filled up with zero bytes.
Resize(s, n) == [i \in 1..n |-> IF i <= Len(s) THEN s[i] ELSE 0]

\* The fields of a ByteWriter, as one value.
ThisWriter == [receiver_ |-> receiver_, bytes_written_ |-> bytes_written_,
               unlimited_ |-> unlimited_]

\* ByteWriter::Write(start, end) with [start, end) holding `data`.
ByteWriter_Write_GrowsByWriteLength(t, data) ==
    LET max_write == Len(t.receiver_) - t.bytes_written_
        iterator_size == Len(data)
    IN IF max_write = 0 /\ ~t.unlimited_
       THEN [t |-> t, ret |-> Unexpected(Error("no_space_on_device", ""))]
       ELSE LET bytes_to_write == IF t.unlimited_ THEN iterator_size
                                  ELSE Min(iterator_size, max_write)
                resized == IF t.unlimited_ /\ max_write < bytes_to_write
                           THEN Resize(t.receiver_, t.bytes_written_ + max_write + bytes_to_write)
                           ELSE t.receiver_
            IN [t |-> [t EXCEPT
                         !.receiver_ =
                             [i \in DOMAIN resized |->
                                 IF i > t.bytes_written_ /\ i <= t.bytes_written_ + bytes_to_write
                                 THEN data[i - t.bytes_written_] ELSE resized[i]],
                         !.bytes_written_ = @ + bytes_to_write],
                ret |-> Ok(bytes_to_write)]
ByteWriter_Write(t, data) ==
    LET max_write == Len(t.receiver_) - t.bytes_written_
        iterator_size == Len(data)
    IN IF max_write = 0 /\ ~t.unlimited_
       THEN [t |-> t, ret |-> Unexpected(Error("no_space_on_device", ""))]
       ELSE LET bytes_to_write == IF t.unlimited_ THEN iterator_size
                                  ELSE Min(iterator_size, max_write)
                resized == IF t.unlimited_ /\ max_write < bytes_to_write
                           THEN Resize(t.receiver_, t.bytes_written_ + bytes_to_write)
                           ELSE t.receiver_
            IN [t |-> [t EXCEPT
                         !.receiver_ =
                             [i \in DOMAIN resized |->
                                 IF i > t.bytes_written_ /\ i <= t.bytes_written_ + bytes_to_write
                                 THEN data[i - t.bytes_written_] ELSE resized[i]],
                         !.bytes_written_ = @ + bytes_to_write],
                ret |-> Ok(bytes_to_write)]

\* ByteWriter::SetUnlimited
SetUnlimited ==
    /\ \E enabled \in BOOLEAN : unlimited_' = enabled
    /\ UNCHANGED <<receiver_, bytes_written_, lastWrite>>
    /\ UNCHANGED <<copyVars, repVars, bufVars, sbVars>>

\* The non-empty ranges handed to Write.
WriteRanges == UNION {[1..n -> Bytes] : n \in 1..MaxWrite}

\* ByteWriter::Write
Write ==
    /\ \E data \in WriteRanges :
        /\ bytes_written_ + Len(data) <= MaxWritten
        /\ LET r == ByteWriter_Write(ThisWriter, data) IN
            /\ receiver_' = r.t.receiver_
            /\ bytes_written_' = r.t.bytes_written_
            /\ lastWrite' = [data |-> data, ret |-> r.ret, size |-> Len(receiver_),
                             written |-> bytes_written_, unlimited |-> unlimited_]
    /\ UNCHANGED unlimited_
    /\ UNCHANGED <<copyVars, repVars, bufVars, sbVars>>

InitByteWriter ==
    /\ receiver_ \in {[i \in 1..n |-> 0] : n \in 0..MaxReceiver}
    /\ bytes_written_ = 0
    /\ unlimited_ \in BOOLEAN
    /\ lastWrite = NoWrite
    /\ CopyIdle
    /\ RepeatIdle
    /\ BufferedIdle
    /\ BridgeIdle

NextByteWriter ==
    \/ SetUnlimited
    \/ Write

SpecByteWriter == InitByteWriter /\ [][NextByteWriter]_vars

\* ---- claims about ByteWriter (checked under SpecByteWriter)
\* C19: a Write in unlimited mode returns the length of its range and leaves
\* the container at its size, or, when the room behind the bytes written so far
\* was smaller than the range, at exactly bytes-written-so-far plus the length
\* of the range; in bounded mode the container keeps its size, a Write with no
\* room left returns a no-space error and any other returns the smaller of the
\* range's length and the room left; whatever a Write accepts is stored behind
\* the bytes written before.
C19_ByteWriterModes ==
    /\ [](lastWrite.data # <<>> =>
            LET n == Len(lastWrite.data)
                room == lastWrite.size - lastWrite.written
                ret == lastWrite.ret
            IN /\ lastWrite.unlimited =>
                     /\ ret.ok /\ ret.val = n
                     /\ Len(receiver_) = IF room < n THEN lastWrite.written + n
                                         ELSE lastWrite.size
               /\ ~lastWrite.unlimited =>
                     /\ Len(receiver_) = lastWrite.size
                     /\ room = 0 => (~ret.ok /\ ret.err.code = "no_space_on_device")
                     /\ room > 0 => (ret.ok /\ ret.val = Min(n, room))
                     /\ ret.val <= room
               /\ bytes_written_ = lastWrite.written + ret.val
               /\ bytes_written_ <= Len(receiver_)
               /\ SubSeq(receiver_, lastWrite.written + 1, bytes_written_)
                     = Prefix(lastWrite.data, ret.val))
    /\ [][~unlimited_ => Len(receiver_') = Len(receiver_)]_vars

C19_Witness ==
    /\ lastWrite.unlimited
    /\ lastWrite.written > 0
    /\ lastWrite.size - lastWrite.written = 1
    /\ Len(lastWrite.data) = 2
    /\ Len(receiver_) = lastWrite.written + 2
    /\ Len(receiver_) > MaxReceiver

\* ------------------------------------- ReaderStreamBuffer (Reader::GetStream)
\* errno values.
EIO == 5
ENOSPC == 28

\* The error's code belongs to generic_category() (the errc conditions do; the
\* ProgrammingError of this library's own category does not), and its value.
IsGeneric(code) == code \in {"io_error", "no_space_on_device"}
CodeValue(code) == IF code = "io_error" THEN EIO ELSE ENOSPC

\* What reader_.Read may deliver for the staging buffer: at most BufSize of its
\* next bytes, none only at the end of its data, or an error.
StreamErrors == EnvErrors \cup {Error("ProgrammingError", "Assertion failed")}
StreamReadResults ==
    {Got(SubSeq(rdData, rdPos + 1, rdPos + k)) :
        k \in (IF rdPos = Len(rdData) THEN {0} ELSE 1..Min(BufSize, Len(rdData) - rdPos))}
    \cup {Failed(e) : e \in StreamErrors}
\* What a Read leaves in errno, which was 0 when it was called: a Read that
\* succeeds leaves it alone, one that fails may have set it.
ErrnoLeft(r) == IF r.ok THEN {0} ELSE {0, EIO, ENOSPC}

\* What underflow() returns is the next staged byte, or traits::eof().
EndOfFile == <<>>

\* The fields of the stream buffer and the error-code slot, as one value.
ThisStream == [buf_ |-> buf_, gptr |-> gptr, egptr |-> egptr, errno |-> errno]

\* ReaderStreamBuffer::underflow(); r is what reader_.Read returns and left
\* what it leaves in errno, if it is called.
ReaderStreamBuffer_underflow_KeepsErrno(t, r, left) ==
    IF t.gptr >= t.egptr
    THEN LET afterRead == IF left # 0 THEN left ELSE t.errno
             n_read == IF r.ok THEN r.val ELSE 0
             slot == IF r.ok THEN afterRead
                     ELSE IF afterRead = 0
                          THEN (IF IsGeneric(r.err.code) THEN CodeValue(r.err.code) ELSE EIO)
                          ELSE afterRead
             staged == [i \in DOMAIN t.buf_ |->
                           IF i <= Len(r.data) THEN r.data[i] ELSE t.buf_[i]]
         IN [t |-> [buf_ |-> staged, gptr |-> 0, egptr |-> n_read, errno |-> slot],
             reads |-> 1,
             ret |-> IF n_read = 0 THEN EndOfFile ELSE <<staged[1]>>]
    ELSE [t |-> t, reads |-> 0, ret |-> <<t.buf_[t.gptr + 1]>>]
ReaderStreamBuffer_underflow(t, r, left) ==
    IF t.gptr >= t.egptr
    THEN LET afterRead == left
             n_read == IF r.ok THEN r.val ELSE 0
             slot == IF r.ok THEN afterRead
                     ELSE IF afterRead = 0
                          THEN (IF IsGeneric(r.err.code) THEN CodeValue(r.err.code) ELSE EIO)
                          ELSE afterRead
             staged == [i \in DOMAIN t.buf_ |->
                           IF i <= Len(r.data) THEN r.data[i] ELSE t.buf_[i]]
         IN [t |-> [buf_ |-> staged, gptr |-> 0, egptr |-> n_read, errno |-> slot],
             reads |-> 1,
             ret |-> IF n_read = 0 THEN EndOfFile ELSE <<staged[1]>>]
    ELSE [t |-> t, reads |-> 0, ret |-> <<t.buf_[t.gptr + 1]>>]

\* ReaderStreamBuffer::underflow
Underflow ==
    /\ nReaderReads < MaxRefills
    /\ \E r \in StreamReadResults : \E left \in ErrnoLeft(r) :
        LET u == ReaderStreamBuffer_underflow(ThisStream, r, left) IN
        /\ buf_' = u.t.buf_ /\ gptr' = u.t.gptr /\ egptr' = u.t.egptr
        /\ errno' = u.t.errno
        /\ nReaderReads' = nReaderReads + u.reads
        /\ rdPos' = IF u.reads = 1 THEN rdPos + r.val ELSE rdPos
        /\ lastUnderflow' = [exhausted |-> gptr >= egptr,
                             read |-> IF u.reads = 1 THEN <<r>> ELSE <<>>,
                             errnoAfterRead |-> IF u.reads = 1 THEN left ELSE 0,
                             ret |-> u.ret]
    /\ UNCHANGED rdData
    /\ UNCHANGED <<copyVars, repVars, bufVars, bwVars>>

\* The consumer takes the next staged byte (streambuf advances gptr).
Consume ==
    /\ gptr < egptr
    /\ gptr' = gptr + 1
    /\ UNCHANGED <<rdData, rdPos, buf_, egptr, errno, nReaderReads, lastUnderflow>>
    /\ UNCHANGED <<copyVars, repVars, bufVars, bwVars>>

InitBridge ==
    /\ rdData \in UNION {[1..n -> Bytes] : n \in 0..MaxStream}
    /\ rdPos = 0
    /\ buf_ = [i \in 1..BufSize |-> 0]
    /\ gptr = 0 /\ egptr = 0
    /\ errno \in {0, ENOSPC}
    /\ nReaderReads = 0
    /\ lastUnderflow = NoUnderflow
    /\ CopyIdle
    /\ RepeatIdle
    /\ BufferedIdle
    /\ ByteWriterIdle

NextBridge ==
    \/ Underflow
    \/ Consume

SpecBridge == InitBridge /\ [][NextBridge]_vars

\* ---- claims about the stream bridge (checked under SpecBridge)
\* The last underflow() called reader_.Read, and it failed / reported 0 bytes.
ReadFailed == lastUnderflow.read # <<>> /\ ~lastUnderflow.read[1].ok
ReadEnded ==
    lastUnderflow.read # <<>> /\ lastUnderflow.read[1].ok /\ lastUnderflow.read[1].val = 0

\* A Read is issued on the wrapped Reader only when every staged byte has been
\* consumed, and one underflow() issues at most one.
RefillsOnlyWhenExhausted ==
    /\ [][nReaderReads' # nReaderReads =>
            (gptr >= egptr /\ nReaderReads' = nReaderReads + 1)]_vars
    /\ [](lastUnderflow.read # <<>> => lastUnderflow.exhausted)
    /\ [](gptr <= egptr /\ egptr <= BufSize)

\* C20 as stated: refills happen only when the staged bytes are exhausted, one
\* Read each; when the Read fails the consumer is given EOF and the error-code
\* slot holds the reader's own code if that is a generic one, else EIO; when
\* the Read reports 0 bytes the consumer is given EOF and the slot is zero.
C20_SlotHoldsReadersCode ==
    /\ RefillsOnlyWhenExhausted
    /\ [](ReadFailed =>
            /\ lastUnderflow.ret = EndOfFile
            /\ errno # 0
            /\ errno = (IF IsGeneric(lastUnderflow.read[1].err.code)
                        THEN CodeValue(lastUnderflow.read[1].err.code) ELSE EIO))
    /\ [](ReadEnded => (lastUnderflow.ret = EndOfFile /\ errno = 0))

\* C20 as amended: as above, but when the Read fails the slot holds the
\* non-zero value the failed Read left in it, if it left one; only otherwise
\* the reader's own code if that is a generic one, else EIO.
C20_SlotKeepsErrnoOfRead ==
    /\ RefillsOnlyWhenExhausted
    /\ [](ReadFailed =>
            /\ lastUnderflow.ret = EndOfFile
            /\ errno # 0
            /\ errno = (IF lastUnderflow.errnoAfterRead # 0
                        THEN lastUnderflow.errnoAfterRead
                        ELSE IF IsGeneric(lastUnderflow.read[1].err.code)
                        THEN CodeValue(lastUnderflow.read[1].err.code) ELSE EIO))
    /\ [](ReadEnded => (lastUnderflow.ret = EndOfFile /\ errno = 0))

C20_Witness ==
    /\ ReadFailed
    /\ lastUnderflow.read[1].err.code = "ProgrammingError"
    /\ lastUnderflow.errnoAfterRead = ENOSPC
    /\ errno = ENOSPC
    /\ rdPos > 0 /\ nReaderReads >= 2

\* C21: while recording has not been stopped, whatever reads and rewinds have
\* been made, the internal buffer holds exactly the bytes the wrapped reader
\* has returned so far, in order: a replayed byte is not appended again, a
\* failed wrapped read appends nothing, and a read made after a replay has been
\* consumed appends what the wrapped reader returns.
C21_BufferIsWhatWrappedReturned ==
    /\ [](~stop_done_ => buffer_ = Delivered)
    /\ [][(~stop_done_ /\ ReadStep) =>
            /\ lastOp'.from = "buffer" => (buffer_' = buffer_ /\ wpos' = wpos)
            /\ (lastOp'.from = "wrapped" /\ lastOp'.herr # NoError) => buffer_' = buffer_
            /\ (lastOp'.from = "wrapped" /\ ~lastOp'.ok) => buffer_' = buffer_
            /\ Len(buffer_') = wpos']_vars

C21_Witness ==
    /\ ~stop_done_
    /\ rewind_done_ /\ rewind_consumed_
    /\ bytes_read_ = 2
    /\ lastOp.op \in {"Read", "wrapper_handler"} /\ lastOp.from = "wrapped"
    /\ lastOp.val = 1
    /\ buffer_ = wrapped /\ Len(buffer_) = MaxWrapped

====
